---- MODULE Spec2Model ----
(***************************************************************************)
(* BoumWave: a static blog generator.  This module models the generation   *)
(* pipeline of src/boumwave: the front-matter parser, the post collector,  *)
(* the link renderer, the marker splice of update_index and the generate   *)
(* command, and with them the template engine, the site configuration and  *)
(* the init, scaffold and new_post commands.                               *)
(*                                                                         *)
(* Texts are sequences of one-character strings.  Positions are Python     *)
(* positions (0-based, -1 for "not found") and slices follow Python's      *)
(* rules, negative bounds included.                                        *)
(***************************************************************************)
EXTENDS Integers, Sequences, FiniteSets, TLC

VARIABLES
    \* --- configuration (boumwave.toml, site section) ---
    start_marker,       \* config.site.posts_start_marker
    end_marker,         \* config.site.posts_end_marker
    \* --- the marker splice applied as a function ---
    document_text,      \* the index document given to the splice
    replacement_text,   \* the text spliced between the markers
    spliced,            \* results of successive splices, oldest first
    \* --- parse_post_file applied to one file ---
    translations,       \* the languages of config.site.translations
    link_template,      \* the link template file: [exists, body]
    \* --- parse_post_file applied to one file ---
    post_file,          \* the markdown file given to the parser
    parse_result,       \* what the call produced, NotCalled before it
    \* --- render_post_links applied to one list ---
    given_posts,        \* the list of Post given to render_post_links
    links_result,       \* what the call produced, NotCalled before it
    \* --- the project directory ---
    index_file,         \* text of the index file (config.paths.index_template)
    content,            \* the markdown files of the content folder, in the
                        \* order the directory walk returns them
    today,              \* the current date
    index_runs,         \* outcomes of the update_index runs, oldest first
    \* --- one run of the generate command ---
    env,                \* what exists in the project directory
    post_name,          \* the post folder given on the command line
    pc,                 \* where the run is: start, loop, done, exited
    post_files,         \* the language files find_post_files returned
    cursor,             \* position of the for loop in post_files
    generated_count,    \* generated_count of _generate_impl
    stdout,             \* what the run printed on the output stream
    stderr,             \* what the run printed on the error stream
    exit_code,          \* exit status of the process, NoExit while it runs
    events,             \* output files written and update_index calls, in order
    partial,            \* output paths a failed write may have left incomplete
    failure,            \* the language file and step that failed, NoFailure if none
    \* --- extract_description applied to one markdown body ---
    markdown_content,   \* the blocks of the markdown body
    max_length,         \* the max_length argument
    description,        \* what extract_description returned, NotCalled before
    \* --- the image of one post, as _generate_impl resolves it ---
    declared_image,     \* image_path of the front matter, NoImage if undeclared
    first_image,        \* src of the first <img> of the content, NoImage if none
    disk,               \* the image files that exist
    resolved_image,     \* the image of the EnrichedPost, NotCalled before
    \* --- inject_meta_tags_and_canonical applied to one document ---
    template_html,      \* the parsed html: whether it has a head, and its children
    meta_tags,          \* the top-level nodes of the parsed meta_tags fragment
    canonical_url,      \* the canonical_url argument
    injected,           \* the outcome of the call, NotCalled before
    \* --- get_full_url applied to one post ---
    site_url,           \* site_url of boumwave.toml, as written there
    output_folder,      \* config.paths.output_folder
    url_post,           \* the post
    full_url,           \* what get_full_url returned, NotCalled before
    \* --- render_template applied to one post ---
    page_template,      \* the post template file: its state and its body
    enriched_post,      \* the EnrichedPost given to render_template
    rendered,           \* the outcome of the call, NotCalled before
    \* --- SiteConfig constructed from one [site] table ---
    languages,          \* the languages list of the table
    site_config,        \* the outcome of the construction, NotCalled before
    \* --- the init and scaffold commands run in one directory ---
    tree,               \* the directory: what each path holds
    setup_env,          \* the paths that cannot be created, and whether the
                        \* templates bundled with the package can be read
    setup_log,          \* the commands run so far, oldest first
    \* --- the new_post command run for one title ---
    title,              \* the title given on the command line
    new_post_env,       \* what the command finds in the directory
    new_post            \* the outcome of the command, NotCalled before

----------------------------------------------------------------------------
(* Bounds of the model *)

MaxDocLen == 4
MaxMarkerLen == 2
MaxReplLen == 1
MaxSplices == 2
MaxDate == 2
MaxPosts == 3
MaxFiles == 2
MaxIndexLen == 3
MaxRuns == 2
MaxBlocks == 2
MaxBlockLen == 3
MaxLength == 4
MaxHeadLen == 3
MaxFragmentLen == 3
MaxTemplateLen == 2
MaxLanguages == 3
MaxCommands == 2
MaxTitleLen == 4

----------------------------------------------------------------------------
(* Texts *)

NL == "\n"

\* characters markers are made of
MarkerChar == {"s", "e"}

\* characters of the documents and replacements given as inputs
DocChar == MarkerChar \cup {"x"}

SeqsUpTo(S, n) == UNION {[1..k -> S] : k \in 0..n}

NonEmptySeqsUpTo(S, n) == UNION {[1..k -> S] : k \in 1..n}

----------------------------------------------------------------------------
(* Python string operations *)

\* sub occurs in s at 0-based position p
OccursAt(s, sub, p) ==
    /\ p >= 0
    /\ p + Len(sub) <= Len(s)
    /\ \A k \in 1..Len(sub) : s[p + k] = sub[k]

\* str.find: lowest 0-based position of sub in s, -1 when absent
Find(s, sub) ==
    IF \E p \in 0..Len(s) : OccursAt(s, sub, p)
    THEN CHOOSE p \in 0..Len(s) :
            /\ OccursAt(s, sub, p)
            /\ \A q \in 0..(p - 1) : ~OccursAt(s, sub, q)
    ELSE -1

\* the "in" operator on strings
Contains(s, sub) == \E p \in 0..Len(s) : OccursAt(s, sub, p)

\* a slice bound as Python normalises it: negative counts from the end,
\* then clamped to 0..len
SliceBound(s, k) ==
    LET n == Len(s)
        j == IF k < 0 THEN n + k ELSE k
    IN  IF j < 0 THEN 0 ELSE IF j > n THEN n ELSE j

\* s[:k]
SliceTo(s, k) == SubSeq(s, 1, SliceBound(s, k))

\* s[k:]
SliceFrom(s, k) == SubSeq(s, SliceBound(s, k) + 1, Len(s))

----------------------------------------------------------------------------
(* The marker splice of update_index *)

\* HeadCut without the length of the start marker
HeadCutBeforeMarker(index_content, sm) == Find(index_content, sm)

\* where the text kept in front of the replacement ends
HeadCut(index_content, sm) == Find(index_content, sm) + Len(sm)

\* where the text kept behind the replacement begins: the code searches the
\* end marker from the beginning of the document
TailCut(index_content, sm, em) == Find(index_content, em)

\* new_content of update_index
Splice(index_content, sm, em, post_links_html) ==
    SliceTo(index_content, HeadCut(index_content, sm))
        \o <<NL>> \o post_links_html \o <<NL>>
        \o SliceFrom(index_content, TailCut(index_content, sm, em))

----------------------------------------------------------------------------
(* Posts and their front matter *)

\* the fields of Post, in declaration order
Fields == <<"title", "slug", "published_date", "lang">>

FieldSet == {Fields[k] : k \in 1..Len(Fields)}

\* what the front matter holds for a field: a value the schema accepts, no
\* value, or a value the schema rejects (slug INVALID-SLUG, lang english, ...)
FieldStatus == {"ok", "missing", "invalid"}

Titles == {<<"x">>, <<"e">>}
Slugs == {"a-post", "b-post"}
Dates == 1..MaxDate
Langs == {"en", "fr"}

\* front matters whose accepted values come from the given sets; a field that
\* is missing or rejected carries a placeholder
FrontMatters(Ts, Ss, Ds, Ls) ==
    {fm \in [st : [FieldSet -> FieldStatus],
             title : Ts \cup {<<>>},
             slug : Ss \cup {""},
             published_date : Ds \cup {0},
             lang : Ls \cup {""}] :
        /\ (fm.st["title"] = "ok") <=> (fm.title \in Ts)
        /\ (fm.st["slug"] = "ok") <=> (fm.slug \in Ss)
        /\ (fm.st["published_date"] = "ok") <=> (fm.published_date \in Ds)
        /\ (fm.st["lang"] = "ok") <=> (fm.lang \in Ls)}

\* the errors Post.model_validate reports: one per field the schema rejects,
\* in declaration order, typed "missing" or by the constraint that failed
ValidationErrors(fm) ==
    LET F[k \in 0..Len(Fields)] ==
            IF k = 0 THEN <<>>
            ELSE IF fm.st[Fields[k]] = "ok" THEN F[k - 1]
            ELSE Append(F[k - 1], [loc |-> Fields[k], type |-> fm.st[Fields[k]]])
    IN  F[Len(Fields)]

\* the Post a front matter validates to
PostOf(fm) ==
    [title |-> fm.title, slug |-> fm.slug,
     published_date |-> fm.published_date, lang |-> fm.lang]

NoPost == [title |-> <<>>, slug |-> "", published_date |-> 0, lang |-> ""]

----------------------------------------------------------------------------
(* parse_post_file *)

\* the line printed on the error stream for one validation error
ErrorLine(error) ==
    IF error.type = "missing"
    THEN [text |-> "Missing required field", field |-> error.loc]
    ELSE [text |-> "Invalid field", field |-> error.loc]

\* how the parser leaves when it cannot go on: it prints and calls sys.exit(1)
ParserFailure(lines) ==
    [raised |-> "SystemExit", code |-> 1, stderr |-> lines,
     returned |-> FALSE, post |-> NoPost]

\* parse_post_file(file_path): the outcome of the call
ParsePostFile(file) ==
    IF ~file.readable
    THEN ParserFailure(<<[text |-> "Error reading file", field |-> ""]>>)
    ELSE LET errors == ValidationErrors(file.fm)
         IN  IF errors /= <<>>
             THEN ParserFailure(
                    <<[text |-> "Error: Invalid front matter", field |-> ""]>>
                    \o [k \in 1..Len(errors) |-> ErrorLine(errors[k])])
             ELSE [raised |-> "none", code |-> 0, stderr |-> <<>>,
                   returned |-> TRUE, post |-> PostOf(file.fm)]

NoFile == [folder |-> "", readable |-> FALSE]

NotCalled == [raised |-> "not_called"]

----------------------------------------------------------------------------
(* Exceptions *)

\* the exception classes of boumwave.exceptions, all derived from BoumWaveError
BoumWaveErrors ==
    {"BoumWaveError", "ConfigNotFoundError", "ConfigValidationError",
     "EnvironmentValidationError", "PostValidationError", "MarkdownParseError",
     "FileNotFoundError", "FileCreationError", "FileAlreadyExistsError",
     "TemplateError", "TemplateNotFoundError", "TemplateRenderError",
     "MetadataExtractionError"}

\* "except BoumWaveError" catches these; SystemExit and the built-in
\* exceptions are none of them
IsBoumWaveError(raised) == raised \in BoumWaveErrors

----------------------------------------------------------------------------
(* collect_all_posts *)

\* the first file of the walk whose parse is not handled by the collector's
\* "except BoumWaveError: continue"; 0 when there is none
FirstUnhandled(files) ==
    LET bad == {k \in 1..Len(files) :
                    /\ ParsePostFile(files[k]).raised /= "none"
                    /\ ~IsBoumWaveError(ParsePostFile(files[k]).raised)}
    IN  IF bad = {} THEN 0 ELSE CHOOSE k \in bad : \A j \in bad : k <= j

\* the posts appended while walking the files in order: a file is kept when it
\* parses, skipped when the parser raises a BoumWaveError
Collected(files) ==
    LET F[k \in 0..Len(files)] ==
            IF k = 0 THEN <<>>
            ELSE IF ParsePostFile(files[k]).raised = "none"
                 THEN Append(F[k - 1], ParsePostFile(files[k]).post)
                 ELSE F[k - 1]
    IN  F[Len(files)]

\* collect_all_posts(): files is the content tree in the order of the walk
CollectAllPosts(files) ==
    LET k == FirstUnhandled(files)
    IN  IF k /= 0
        THEN [raised |-> ParsePostFile(files[k]).raised,
              stderr |-> ParsePostFile(files[k]).stderr,
              posts |-> <<>>]
        ELSE [raised |-> "none", stderr |-> <<>>, posts |-> Collected(files)]

----------------------------------------------------------------------------
(* render_post_links *)

\* where sorted(..., reverse=True) puts p among the posts sorted so far,
\* counting from the oldest
AscendingPoint(sorted, p) ==
    Cardinality({j \in 1..Len(sorted) :
                    sorted[j].published_date <= p.published_date})

\* where sorted(..., reverse=True) puts p among the posts sorted so far: behind
\* every post that is not older (the sort is stable)
InsertionPoint(sorted, p) ==
    Cardinality({j \in 1..Len(sorted) :
                    sorted[j].published_date >= p.published_date})

\* sorted(posts, key=lambda p: p.published_date, reverse=True)
SortedPosts(posts) ==
    LET F[k \in 0..Len(posts)] ==
            IF k = 0 THEN <<>>
            ELSE LET at == InsertionPoint(F[k - 1], posts[k])
                 IN  SubSeq(F[k - 1], 1, at) \o <<posts[k]>>
                        \o SubSeq(F[k - 1], at + 1, k - 1)
    IN  F[Len(posts)]

\* A link template is a sequence of items: "{{title}}" stands for the title,
\* "{{raise}}" for an expression that raises when rendered, any other item
\* for itself.
TemplateRaises(body) == \E k \in 1..Len(body) : body[k] = "{{raise}}"

\* template.render(context) for one post
RenderLink(body, post) ==
    LET F[k \in 0..Len(body)] ==
            IF k = 0 THEN <<>>
            ELSE IF body[k] = "{{title}}" THEN F[k - 1] \o post.title
                 ELSE Append(F[k - 1], body[k])
    IN  F[Len(body)]

\* "\n".join(texts)
JoinLines(texts) ==
    LET F[k \in 0..Len(texts)] ==
            IF k = 0 THEN <<>>
            ELSE IF k = 1 THEN texts[1]
                 ELSE F[k - 1] \o <<NL>> \o texts[k]
    IN  F[Len(texts)]

\* what stops the rendering of one post: the translation lookup of the
\* context (outside the try block), or the template
LinkFailure(tpl, langs, post) ==
    IF post.lang \notin langs THEN "KeyError"
    ELSE IF TemplateRaises(tpl.body) THEN "TemplateRenderError"
    ELSE "none"

\* render_post_links(posts, config): tpl is the link template of the
\* configuration, langs the languages that have a translation
RenderPostLinks(posts, tpl, langs) ==
    LET sorted_posts == SortedPosts(posts)
        failing == {k \in 1..Len(sorted_posts) :
                        LinkFailure(tpl, langs, sorted_posts[k]) /= "none"}
    IN  IF ~tpl.exists
        THEN [raised |-> "TemplateNotFoundError", rendered_links |-> <<>>,
              html |-> <<>>]
        ELSE IF failing /= {}
        THEN [raised |-> LinkFailure(tpl, langs,
                            sorted_posts[CHOOSE k \in failing :
                                            \A j \in failing : k <= j]),
              rendered_links |-> <<>>, html |-> <<>>]
        ELSE LET rendered_links ==
                    [k \in 1..Len(sorted_posts) |->
                        RenderLink(tpl.body, sorted_posts[k])]
             IN  [raised |-> "none", rendered_links |-> rendered_links,
                  html |-> JoinLines(rendered_links)]

----------------------------------------------------------------------------
(* update_index *)

NoPostsYet == <<"<!-- No posts yet -->">>

\* text.strip() where the only whitespace is the newline
Strip(text) ==
    LET keep == {k \in 1..Len(text) : text[k] /= NL}
    IN  IF keep = {} THEN <<>>
        ELSE SubSeq(text, CHOOSE k \in keep : \A j \in keep : k <= j,
                          CHOOSE k \in keep : \A j \in keep : k >= j)

\* BeautifulSoup(new_content, "html.parser").prettify() on a document of
\* character data: the text is stripped and ends with a newline
Prettify(text) ==
    IF Strip(text) = <<>> THEN <<>> ELSE Append(Strip(text), NL)

\* the links are rendered whether or not there are posts
AlwaysRendered(posts, tpl, langs) == RenderPostLinks(posts, tpl, langs)

\* "if posts: ... else: ...": the rendered links, or the placeholder when
\* no post was collected
PostLinksHtml(posts, tpl, langs) ==
    IF posts /= <<>>
    THEN RenderPostLinks(posts, tpl, langs)
    ELSE [raised |-> "none", rendered_links |-> <<>>, html |-> NoPostsYet]

\* update_index(config) up to the write: index_content is the index file as
\* read, files the content tree in the order of the walk
UpdateIndex(index_content, files, sm, em, tpl, langs) ==
    LET collected == CollectAllPosts(files)
        links == PostLinksHtml(collected.posts, tpl, langs)
    IN  IF collected.raised /= "none"
        THEN [raised |-> collected.raised, stderr |-> collected.stderr,
              posts |-> <<>>, post_links_html |-> <<>>, formatted_html |-> <<>>]
        ELSE IF links.raised /= "none"
        THEN [raised |-> links.raised, stderr |-> <<>>,
              posts |-> collected.posts, post_links_html |-> <<>>,
              formatted_html |-> <<>>]
        ELSE [raised |-> "none", stderr |-> <<>>,
              posts |-> collected.posts, post_links_html |-> links.html,
              formatted_html |->
                  Prettify(Splice(index_content, sm, em, links.html))]

----------------------------------------------------------------------------
(* extract_description *)

\* characters of the text of a block
TextChar == {"a", " "}

\* the blocks of a markdown body: a heading, or a paragraph with its text
Blocks ==
    {[kind |-> "heading", text |-> <<"a">>]}
        \cup [kind : {"paragraph"}, text : SeqsUpTo(TextChar, MaxBlockLen)]

\* str.rfind: highest 0-based position of sub in s, -1 when absent
RFind(s, sub) ==
    IF \E p \in 0..Len(s) : OccursAt(s, sub, p)
    THEN CHOOSE p \in 0..Len(s) :
            /\ OccursAt(s, sub, p)
            /\ \A q \in (p + 1)..Len(s) : ~OccursAt(s, sub, q)
    ELSE -1

\* text.strip() where the only whitespace is the space
StripSpaces(text) ==
    LET keep == {k \in 1..Len(text) : text[k] /= " "}
    IN  IF keep = {} THEN <<>>
        ELSE SubSeq(text, CHOOSE k \in keep : \A j \in keep : k <= j,
                          CHOOSE k \in keep : \A j \in keep : k >= j)

\* soup.get_text(separator=" ", strip=True) once the headings are removed:
\* the stripped texts of the paragraphs, the empty ones dropped, joined by
\* one space
VisibleText(blocks) ==
    LET F[k \in 0..Len(blocks)] ==
            IF k = 0 THEN <<>>
            ELSE IF \/ blocks[k].kind = "heading"
                    \/ StripSpaces(blocks[k].text) = <<>>
                 THEN F[k - 1]
                 ELSE IF F[k - 1] = <<>>
                      THEN StripSpaces(blocks[k].text)
                      ELSE F[k - 1] \o <<" ">> \o StripSpaces(blocks[k].text)
    IN  F[Len(blocks)]

\* a suffix of four periods
FourPeriods == <<".", ".", ".", ".">>

\* the suffix of a truncated description
Ellipsis == <<".", ".", ".">>

\* the first space of the truncated text
FirstSpace(truncated) == Find(truncated, <<" ">>)

\* last_space of extract_description
LastSpace(truncated) == RFind(truncated, <<" ">>)

\* extract_description(markdown_content, max_length)
ExtractDescription(blocks, limit) ==
    LET text == VisibleText(blocks)
        truncated == SliceTo(text, limit)
        last_space == LastSpace(truncated)
    IN  IF Len(text) <= limit THEN text
        ELSE (IF last_space > 0 THEN SliceTo(truncated, last_space) ELSE truncated)
                \o Ellipsis

----------------------------------------------------------------------------
(* The image of a post *)

NoImage == ""

LogoPath == "logo.jpg"

\* image_path of _generate_impl: the first image of the content, or the logo;
\* the front matter's image_path is no field of Post and is not looked at
ImagePath(declared, first) == IF first /= NoImage THEN first ELSE LogoPath

\* the image field of EnrichedPost is a FilePath: the model is built only if
\* the file exists
EnrichedPostImage(image_path, files) ==
    IF image_path \in files
    THEN [raised |-> "none", image |-> image_path]
    ELSE [raised |-> "ValidationError", image |-> NoImage]

----------------------------------------------------------------------------
(* inject_meta_tags_and_canonical *)

\* a node of a parsed document: its kind, the tree it comes from, its
\* position there, its href and its children
Node(kind, from, at, href, inner) ==
    [kind |-> kind, from |-> from, at |-> at, href |-> href, inner |-> inner]

\* soup.new_tag("link", rel="canonical", href=canonical_url)
CanonicalTag(url) == Node("link", "new_tag", 0, url, <<>>)

\* the tag is a meta tag with a charset attribute
IsCharsetMeta(node) == node.kind = "meta charset"

\* items with item inserted behind position k
InsertAfter(items, k, item) ==
    SubSeq(items, 1, k) \o <<item>> \o SubSeq(items, k + 1, Len(items))

\* items without the item at position k
RemoveAt(items, k) == SubSeq(items, 1, k - 1) \o SubSeq(items, k + 1, Len(items))

\* no charset meta tag is looked for
NoCharsetChild(children) == 0

\* head.find("meta", charset=True): the child of head that is, or holds, the
\* first charset meta tag of the head in document order; 0 when the head has
\* none
CharsetChild(children) ==
    LET hits == {k \in 1..Len(children) :
                    \/ IsCharsetMeta(children[k])
                    \/ \E j \in 1..Len(children[k].inner) :
                            IsCharsetMeta(children[k].inner[j])}
    IN  IF hits = {} THEN 0 ELSE CHOOSE k \in hits : \A h \in hits : k <= h

\* lines 127 to 136: the canonical link goes behind the charset meta tag,
\* or to the front of head
InsertCanonical(children, url) ==
    LET k == CharsetChild(children)
    IN  IF k = 0 THEN <<CanonicalTag(url)>> \o children
        ELSE IF IsCharsetMeta(children[k])
        THEN InsertAfter(children, k, CanonicalTag(url))
        ELSE LET inner == children[k].inner
                 j == CHOOSE i \in 1..Len(inner) :
                        /\ IsCharsetMeta(inner[i])
                        /\ \A h \in 1..(i - 1) : ~IsCharsetMeta(inner[h])
             IN  [children EXCEPT
                    ![k].inner = InsertAfter(inner, j, CanonicalTag(url))]

\* "for tag in meta_soup: if tag.name: head.append(tag)": the loop walks the
\* list of the fragment's nodes by index while append takes each tag out of
\* that list
RECURSIVE AppendTags(_, _, _)
AppendTags(contents, i, children) ==
    IF i > Len(contents) THEN children
    ELSE IF contents[i].kind = "tag"
    THEN AppendTags(RemoveAt(contents, i), i + 1, Append(children, contents[i]))
    ELSE AppendTags(contents, i + 1, children)

\* inject_meta_tags_and_canonical(html, meta_tags, canonical_url)
Inject(html, fragment, url) ==
    IF ~html.has_head
    THEN [raised |-> "ValueError", message |-> "No <head> tag found in template",
          returned |-> FALSE, head |-> <<>>]
    ELSE [raised |-> "none", message |-> "", returned |-> TRUE,
          head |-> AppendTags(fragment, 1, InsertCanonical(html.head, url))]

----------------------------------------------------------------------------
(* The URLs of a post *)

\* a URL is a sequence of parts: the scheme and host, then the slashes and
\* the segments of its path
Origin == "https://example.com"

\* str(config.site.site_url): pydantic's HttpUrl gives a URL without a path
\* the path "/"
HttpUrlStr(url) == IF Len(url) = 1 THEN url \o <<"/">> ELSE url

\* Post.get_relative_url(config)
RelativeUrl(post, folder) == <<"/", folder, "/", post.lang, "/", post.slug>>

\* the site URL as get_full_url interpolates it
SiteUrlText(url) == HttpUrlStr(url)

\* Post.get_full_url(config)
FullUrl(post, url, folder) == SiteUrlText(url) \o RelativeUrl(post, folder)

----------------------------------------------------------------------------
(* render_template *)

\* the names the post template of the scaffold and the documentation refer to
TemplateNames ==
    {"lang", "title", "published_date", "published_datetime_iso",
     "published_on_date", "content", "image_path"}

\* str(date) for a day of October 2025
IsoDate(d) == <<"2025-10-", ToString(d)>>

\* Post.published_datetime_iso
PublishedDatetimeIso(post) == IsoDate(post.published_date) \o <<"T00:00:00Z">>

\* config.site.translations[lang].published_on of the default configuration
PublishedOn(lang) == IF lang = "fr" THEN "Publie le" ELSE "Published on"

\* format_date(published_date, format="long", locale=lang)
FormatDate(d, lang) ==
    IF lang = "fr" THEN <<ToString(d), " octobre 2025">>
    ELSE <<"October ", ToString(d), ", 2025">>

\* Post.get_published_on_date(config)
GetPublishedOnDate(post) ==
    <<PublishedOn(post.lang), " ">> \o FormatDate(post.published_date, post.lang)

\* the context dict of render_template: its keys and the text each value
\* renders to
Context(ep) ==
    [lang |-> <<ep.post.lang>>,
     title |-> ep.post.title,
     published_date |-> IsoDate(ep.post.published_date),
     content |-> ep.content_html]

\* an item of a template body: literal text, "{{ name }}", or an expression
\* that raises when it is rendered
TextItem(t) == [kind |-> "text", name |-> t]

VarItem(n) == [kind |-> "var", name |-> n]

RaiseItem == [kind |-> "raise", name |-> ""]

\* template.render(context): a name the context does not define is
\* jinja2's Undefined, which renders as the empty string
Render(body, context) ==
    LET F[k \in 0..Len(body)] ==
            IF k = 0 THEN <<>>
            ELSE IF body[k].kind = "text" THEN Append(F[k - 1], body[k].name)
            ELSE IF body[k].name \in DOMAIN context
                 THEN F[k - 1] \o context[body[k].name]
            ELSE F[k - 1]
    IN  F[Len(body)]

\* how render_template leaves when it cannot go on: it prints and calls
\* sys.exit(1)
RenderFailure(line) ==
    [raised |-> "SystemExit", code |-> 1, stderr |-> <<line>>, html |-> <<>>]

\* render_template(template_path, enriched_post)
RenderTemplate(template, ep) ==
    IF template.state = "absent"
    THEN RenderFailure("Error: Template file not found")
    ELSE IF template.state = "invalid"
    THEN RenderFailure("Error loading template")
    ELSE IF \E k \in 1..Len(template.body) : template.body[k] = RaiseItem
    THEN RenderFailure("Error rendering template")
    ELSE [raised |-> "none", code |-> 0, stderr |-> <<>>,
          html |-> Render(template.body, Context(ep))]

NoEnrichedPost == [post |-> NoPost, content_html |-> <<>>, image |-> ""]

----------------------------------------------------------------------------
(* SiteConfig *)

\* ", ".join(names)
JoinComma(names) ==
    LET F[k \in 0..Len(names)] ==
            IF k = 0 THEN <<>>
            ELSE IF k = 1 THEN <<names[1]>>
                 ELSE F[k - 1] \o <<", ", names[k]>>
    IN  F[Len(names)]

\* only the first language without a translation is reported
FirstMissingOnly(langs, keys) ==
    LET missing == SelectSeq(langs, LAMBDA l : l \notin keys)
    IN  IF missing = <<>> THEN <<>> ELSE <<missing[1]>>

\* missing_languages of the validator: the languages without a translation,
\* in the order of the list
MissingLanguages(langs, keys) == SelectSeq(langs, LAMBDA l : l \notin keys)

\* SiteConfig(languages=..., translations=..., ...) with valid other fields:
\* the validator raises ValueError, which pydantic reports as ValidationError
SiteConfigOf(langs, keys) ==
    LET missing_languages == MissingLanguages(langs, keys)
    IN  IF missing_languages /= <<>>
        THEN [raised |-> "ValidationError",
              message |-> <<"Missing translations for language(s): ">>
                          \o JoinComma(missing_languages)
                          \o <<". Please add [site.translations.",
                               missing_languages[1], "] section in boumwave.toml">>,
              languages |-> <<>>, translations |-> {}]
        ELSE [raised |-> "none", message |-> <<>>,
              languages |-> langs, translations |-> keys]

----------------------------------------------------------------------------
(* The init and scaffold commands *)

\* what a path of the directory holds
Absent == [kind |-> "absent", content |-> ""]

Dir == [kind |-> "dir", content |-> ""]

File(text) == [kind |-> "file", content |-> text]

\* a check that finds no path
NeverExists(t, path) == FALSE

\* Path.exists()
Exists(t, path) == t[path] /= Absent

\* the paths of the default configuration
ConfigFile == "boumwave.toml"

Folders == <<"templates", "content", "posts">>

\* the files scaffold copies: the bundled template, where it goes, the
\* folder that holds it ("" for the project root) and how messages call it
Copies ==
    <<[source |-> "example_post.html", path |-> "templates/post.html",
       parent |-> "templates", file_type |-> "template file"],
      [source |-> "example_link.html", path |-> "templates/link.html",
       parent |-> "templates", file_type |-> "template file"],
      [source |-> "example_index.html", path |-> "index.html",
       parent |-> "", file_type |-> "index file"]>>

SetupPaths ==
    {ConfigFile} \cup {Folders[k] : k \in 1..Len(Folders)}
    \cup {Copies[k].path : k \in 1..Len(Copies)}

\* the text of templates/default_config.toml
DefaultConfig == "default_config.toml"

\* init_command(): the directory it leaves, what it printed and its status
InitCommand(t, e) ==
    IF Exists(t, ConfigFile)
    THEN [tree |-> t, exit |-> 1, stdout |-> <<>>,
          stderr |-> <<"Error: boumwave.toml already exists in this directory.",
                       "Remove it first if you want to reinitialize.">>]
    ELSE IF ~e.bundled
    THEN [tree |-> t, exit |-> 1, stdout |-> <<>>,
          stderr |-> <<"Error loading configuration template">>]
    ELSE IF ConfigFile \in e.denied
    THEN [tree |-> t, exit |-> 1, stdout |-> <<>>,
          stderr |-> <<"Error creating configuration file">>]
    ELSE [tree |-> [t EXCEPT ![ConfigFile] = File(DefaultConfig)], exit |-> 0,
          stdout |-> <<"Configuration file 'boumwave.toml' created successfully!">>,
          stderr |-> <<>>]

\* load_config(): the exception it raises, "none" when the file validates
LoadConfig(t) ==
    IF ~Exists(t, ConfigFile) THEN "ConfigNotFoundError"
    ELSE IF t[ConfigFile] /= File(DefaultConfig) THEN "ConfigValidationError"
    ELSE "none"

\* the loop over folders_to_create, up to folder k: st is the run so far
CreateFolder(st, folder_path, e) ==
    IF st.exit /= 0 THEN st
    ELSE IF Exists(st.tree, folder_path)
    THEN [st EXCEPT !.stdout = Append(@, <<"Warning: folder already exists", folder_path>>)]
    ELSE IF folder_path \in e.denied
    THEN [st EXCEPT !.exit = 1,
                    !.stderr = Append(@, <<"Error creating folder", folder_path>>)]
    ELSE [st EXCEPT !.tree = [@ EXCEPT ![folder_path] = Dir],
                    !.stdout = Append(@, <<"Created folder", folder_path>>)]

\* the destination is written over whether or not it exists
CopyOverExisting(st, copy, e) ==
    IF st.exit /= 0 THEN st
    ELSE IF \/ ~e.bundled
            \/ copy.path \in e.denied
            \/ (copy.parent /= "" /\ st.tree[copy.parent] /= Dir)
    THEN [st EXCEPT !.exit = 1,
                    !.stderr = Append(@, <<"Error creating", copy.path>>)]
    ELSE [st EXCEPT !.tree = [@ EXCEPT ![copy.path] = File(copy.source)],
                    !.stdout = Append(@, <<"Created", copy.path>>)]

\* _copy_template_file(source_filename, destination_path, file_type)
CopyTemplateFile(st, copy, e) ==
    IF st.exit /= 0 THEN st
    ELSE IF Exists(st.tree, copy.path)
    THEN [st EXCEPT !.stdout = Append(@, <<"Warning: already exists, skipping copy", copy.path>>)]
    ELSE IF \/ ~e.bundled
            \/ copy.path \in e.denied
            \/ (copy.parent /= "" /\ st.tree[copy.parent] /= Dir)
    THEN [st EXCEPT !.exit = 1,
                    !.stderr = Append(@, <<"Error creating", copy.path>>)]
    ELSE [st EXCEPT !.tree = [@ EXCEPT ![copy.path] = File(copy.source)],
                    !.stdout = Append(@, <<"Created", copy.path>>)]

\* scaffold_command(): load_config is not guarded, so its exception ends
\* the process with a traceback and a non-zero status
ScaffoldCommand(t, e) ==
    LET start == [tree |-> t, exit |-> 0, stdout |-> <<>>, stderr |-> <<>>]
        folders[k \in 0..Len(Folders)] ==
            IF k = 0 THEN start ELSE CreateFolder(folders[k - 1], Folders[k], e)
        copied[k \in 0..Len(Copies)] ==
            IF k = 0 THEN folders[Len(Folders)]
            ELSE CopyTemplateFile(copied[k - 1], Copies[k], e)
        end == copied[Len(Copies)]
    IN  IF LoadConfig(t) /= "none"
        THEN [start EXCEPT !.exit = 1, !.stderr = <<<<"Traceback", LoadConfig(t)>>>>]
        ELSE IF end.exit /= 0 THEN end
        ELSE [end EXCEPT !.stdout = Append(@, <<"Scaffold completed!", "">>)]

----------------------------------------------------------------------------
(* The new_post command *)

\* characters of a title: an upper-case letter, a digit, a space, an
\* underscore, a hyphen and an accented letter
TitleChar == {"A", "1", " ", "_", "-", "E'"}

\* the characters [a-z0-9] a title can give
LowerAlnum == {"a", "1"}

\* str.lower()
Lower(text) ==
    [k \in 1..Len(text) |->
        IF text[k] = "A" THEN "a" ELSE IF text[k] = "E'" THEN "e'" ELSE text[k]]

\* re.sub("[class]+", repl, text): every maximal run of characters of the
\* class becomes one repl
ReplaceRuns(text, class, repl) ==
    LET F[k \in 0..Len(text)] ==
            IF k = 0 THEN <<>>
            ELSE IF text[k] \notin class THEN Append(F[k - 1], text[k])
            ELSE IF k > 1 /\ text[k - 1] \in class THEN F[k - 1]
            ELSE Append(F[k - 1], repl)
    IN  F[Len(text)]

\* re.sub("[class]", "", text)
RemoveChars(text, class) == SelectSeq(text, LAMBDA c : c \notin class)

\* the ends of the text are left as they are
KeepEnds(text, chars) == text

\* text.strip(chars)
StripChars(text, chars) ==
    LET keep == {k \in 1..Len(text) : text[k] \notin chars}
    IN  IF keep = {} THEN <<>>
        ELSE SubSeq(text, CHOOSE k \in keep : \A j \in keep : k <= j,
                          CHOOSE k \in keep : \A j \in keep : k >= j)

\* slugify(text)
Slugify(text) ==
    LET lowered == Lower(text)
        hyphened == ReplaceRuns(lowered, {" ", "_"}, "-")
        cleaned == RemoveChars(hyphened,
                        {c \in {lowered[k] : k \in 1..Len(lowered)} :
                            c \notin LowerAlnum \cup {"-"}})
        single == ReplaceRuns(cleaned, {"-"}, "-")
    IN  StripChars(single, {"-"})

\* filesify(text)
Filesify(text) ==
    LET lowered == Lower(text)
        underscored == ReplaceRuns(lowered, {" ", "-"}, "_")
        cleaned == RemoveChars(underscored,
                        {"/", "\\", ":", "*", "?", "\"", "<", ">", "|"})
        single == ReplaceRuns(cleaned, {"_"}, "_")
    IN  StripChars(single, {"_"})

\* the pattern of Post.slug, ^[a-z0-9]+(?:-[a-z0-9]+)*$: groups of
\* lower-case letters and digits joined by single hyphens
MatchesSlugPattern(slug) ==
    /\ slug /= <<>>
    /\ \A k \in 1..Len(slug) : slug[k] \in LowerAlnum \cup {"-"}
    /\ slug[1] /= "-"
    /\ slug[Len(slug)] /= "-"
    /\ \A k \in 1..Len(slug) - 1 : ~(slug[k] = "-" /\ slug[k + 1] = "-")

\* how new_post_command leaves when it cannot go on
NewPostFailure(line, slug, fs_name) ==
    [raised |-> "SystemExit", exit |-> 1, stderr |-> <<line>>, slug |-> slug,
     fs_name |-> fs_name, files |-> <<>>]

\* new_post_command(title): the language files it creates carry the values
\* given to post_template.format
NewPostCommand(t, e) ==
    LET slug == Slugify(t)
        fs_name == Filesify(t)
    IN  IF ~e.config
        THEN NewPostFailure("Error: boumwave.toml not found.", <<>>, <<>>)
        ELSE IF slug = <<>>
        THEN NewPostFailure("Error: Could not generate a valid slug from the title.",
                            slug, <<>>)
        ELSE IF fs_name = <<>>
        THEN NewPostFailure("Error: Could not generate a valid filename from the title.",
                            slug, fs_name)
        ELSE IF e.post_dir
        THEN NewPostFailure("Error: Post directory already exists.", slug, fs_name)
        ELSE IF ~e.writable
        THEN NewPostFailure("Error creating post directory", slug, fs_name)
        ELSE [raised |-> "none", exit |-> 0, stderr |-> <<>>, slug |-> slug,
              fs_name |-> fs_name,
              files |-> [k \in 1..Len(e.languages) |->
                            [name |-> fs_name \o <<".", e.languages[k], ".md">>,
                             title |-> t, slug |-> slug, lang |-> e.languages[k]]]]

----------------------------------------------------------------------------
(* The generate command *)

\* validate_environment(config, post_name): the failed checks, in order
ValidateEnvironment(e, index_content, sm, em, tpl) ==
    (IF ~e.logo THEN <<"logo">> ELSE <<>>)
    \o (IF ~e.template_folder THEN <<"template_folder">> ELSE <<>>)
    \o (IF ~e.post_template THEN <<"post_template">> ELSE <<>>)
    \o (IF ~tpl.exists THEN <<"link_template">> ELSE <<>>)
    \o (IF ~e.index THEN <<"index">> ELSE <<>>)
    \o (IF e.index /\ ~Contains(index_content, sm) THEN <<"start_marker">> ELSE <<>>)
    \o (IF e.index /\ ~Contains(index_content, em) THEN <<"end_marker">> ELSE <<>>)
    \o (IF e.post_folder = "missing" THEN <<"post_folder">>
        ELSE IF e.post_folder /= "dir" THEN <<"not_a_directory">> ELSE <<>>)

\* a validation that lets every environment pass
AlwaysPasses(errors) == TRUE

\* "if errors: raise EnvironmentValidationError": the validation passes when
\* no check has failed
ValidationPasses(errors) == errors = <<>>

\* the files of one post folder, in the order of the walk
FilesOf(files, folder) == SelectSeq(files, LAMBDA f : f.folder = folder)

\* find_post_files(post_name, content_folder)
FindPostFiles(e, files, folder) ==
    IF e.post_folder = "missing"
    THEN [raised |-> "SystemExit", stderr |-> <<"Error: Post folder not found">>,
          md_files |-> <<>>]
    ELSE IF e.post_folder /= "dir"
    THEN [raised |-> "SystemExit", stderr |-> <<"Error: not a directory">>,
          md_files |-> <<>>]
    ELSE IF FilesOf(files, folder) = <<>>
    THEN [raised |-> "SystemExit", stderr |-> <<"Error: No markdown files found">>,
          md_files |-> <<>>]
    ELSE [raised |-> "none", stderr |-> <<>>, md_files |-> FilesOf(files, folder)]

\* the steps of the pipeline of one language file, in the order of the loop body
Steps ==
    <<"parse", "render_markdown", "extract_metadata", "enriched_post",
      "render_template", "seo_tags", "inject", "write">>

\* the steps that can fail whatever the front matter holds
EnvSteps == {Steps[k] : k \in 2..Len(Steps)}

\* how a step other than the parser fails: render_template prints and calls
\* sys.exit(1), the others raise
StepFailure(step) ==
    IF step = "render_template"
    THEN [raised |-> "SystemExit", stderr |-> <<"Error rendering template">>]
    ELSE IF step = "enriched_post"
    THEN [raised |-> "ValidationError", stderr |-> <<>>]
    ELSE IF step = "inject"
    THEN [raised |-> "ValueError", stderr |-> <<>>]
    ELSE IF step = "write"
    THEN [raised |-> "OSError", stderr |-> <<>>]
    ELSE [raised |-> "Exception", stderr |-> <<>>]

\* the status generate passes to sys.exit in its handlers
ExitStatus == 1

\* handlers that swallow the exception without a report
SilentHandler(raised, printed) == <<>>

\* what generate's handlers print for an exception: SystemExit passes
\* through, with what its raiser printed
HandlerOutput(raised, printed) ==
    IF raised = "SystemExit" THEN printed
    ELSE IF IsBoumWaveError(raised) THEN <<"Error", "Hint">>
    ELSE <<"Unexpected error">>

\* output_path of a post
OutputPath(post) == <<post.lang, post.slug, "index.html">>

\* the loop over post_files goes on to the file after the next one
SkipCursor(c) == c + 2

\* the loop over post_files goes on to the next file
NextCursor(c) == c + 1

\* the loop over post_files is left after its first file
LoopLeftEarly(c, n) == c > 1

\* the loop over post_files has handled every file
LoopFinished(c, n) == c > n

NoExit == -1

NoFailure == [file |-> 0, step |-> "none"]

----------------------------------------------------------------------------
(* Variables by the part of the program that owns them *)

config_vars == <<start_marker, end_marker, translations, link_template>>

splice_vars == <<document_text, replacement_text, spliced>>

parse_vars == <<post_file, parse_result>>

links_vars == <<given_posts, links_result>>

project_vars == <<index_file, content, today, index_runs>>

run_vars ==
    <<env, post_name, pc, post_files, cursor, generated_count, stdout, stderr,
      exit_code, events, partial, failure>>

description_vars == <<markdown_content, max_length, description>>

image_vars == <<declared_image, first_image, disk, resolved_image>>

inject_vars == <<template_html, meta_tags, canonical_url, injected>>

url_vars == <<site_url, output_folder, url_post, full_url>>

render_vars == <<page_template, enriched_post, rendered>>

\* the template engine, the configuration model and the other commands
siteconfig_vars == <<languages, site_config>>

setup_vars == <<tree, setup_env, setup_log>>

newpost_vars == <<title, new_post_env, new_post>>

aux_vars == <<render_vars, siteconfig_vars, setup_vars, newpost_vars>>

unit_vars == <<description_vars, image_vars, inject_vars, url_vars, aux_vars>>

vars ==
    <<config_vars, splice_vars, parse_vars, links_vars, project_vars, run_vars,
      unit_vars>>

\* the variables a specification does not use stay at these values
SpliceIdle ==
    /\ document_text = <<>>
    /\ replacement_text = <<>>
    /\ spliced = <<>>

ParseIdle ==
    /\ post_file = NoFile
    /\ parse_result = NotCalled

LinksIdle ==
    /\ given_posts = <<>>
    /\ links_result = NotCalled

ProjectIdle ==
    /\ index_file = <<>>
    /\ content = <<>>
    /\ today = 1
    /\ index_runs = <<>>

\* a project directory in which validate_environment finds everything
CompleteEnv ==
    [logo |-> TRUE, template_folder |-> TRUE, post_template |-> TRUE,
     index |-> TRUE, post_folder |-> "dir"]

DescriptionIdle ==
    /\ markdown_content = <<>>
    /\ max_length = 0
    /\ description = NotCalled

ImageIdle ==
    /\ declared_image = ""
    /\ first_image = ""
    /\ disk = {}
    /\ resolved_image = NotCalled

InjectIdle ==
    /\ template_html = [has_head |-> FALSE, head |-> <<>>]
    /\ meta_tags = <<>>
    /\ canonical_url = ""
    /\ injected = NotCalled

UrlIdle ==
    /\ site_url = <<>>
    /\ output_folder = ""
    /\ url_post = NoPost
    /\ full_url = NotCalled

\* the variables of the functions checked one at a time
RenderIdle ==
    /\ page_template = [state |-> "absent", body |-> <<>>]
    /\ enriched_post = NoEnrichedPost
    /\ rendered = NotCalled

SiteConfigIdle ==
    /\ languages = <<>>
    /\ site_config = NotCalled

SetupIdle ==
    /\ tree = [p \in SetupPaths |-> Absent]
    /\ setup_env = [denied |-> {}, bundled |-> TRUE]
    /\ setup_log = <<>>

NewPostIdle ==
    /\ title = <<>>
    /\ new_post_env = [config |-> FALSE, post_dir |-> FALSE, writable |-> FALSE,
                       languages |-> <<>>]
    /\ new_post = NotCalled

AuxIdle == RenderIdle /\ SiteConfigIdle /\ SetupIdle /\ NewPostIdle

UnitIdle == DescriptionIdle /\ ImageIdle /\ InjectIdle /\ UrlIdle /\ AuxIdle

RunIdle ==
    /\ env = CompleteEnv
    /\ post_name = ""
    /\ pc = "idle"
    /\ post_files = <<>>
    /\ cursor = 0
    /\ generated_count = 0
    /\ stdout = <<>>
    /\ stderr = <<>>
    /\ exit_code = NoExit
    /\ events = <<>>
    /\ partial = {}
    /\ failure = NoFailure

\* the markers of the default configuration, one character each
DefaultMarkers ==
    /\ start_marker = <<"s">>
    /\ end_marker = <<"e">>

\* the link template of the scaffold, and a translation for every language
DefaultTemplates ==
    /\ translations = Langs
    /\ link_template = [exists |-> TRUE, body |-> <<"{{title}}">>]

----------------------------------------------------------------------------
(* SpliceSpec: the marker splice as a function of bounded inputs *)

\* two markers that can delimit a region: neither occurs inside the other
Delimiters(sm, em) == ~Contains(sm, em) /\ ~Contains(em, sm)

SpliceInit ==
    /\ UnitIdle
    /\ RunIdle
    /\ start_marker \in NonEmptySeqsUpTo(MarkerChar, MaxMarkerLen)
    /\ end_marker \in NonEmptySeqsUpTo(MarkerChar, MaxMarkerLen)
    /\ Delimiters(start_marker, end_marker)
    /\ document_text \in SeqsUpTo(DocChar, MaxDocLen)
    /\ replacement_text \in SeqsUpTo(DocChar, MaxReplLen)
    /\ spliced = <<>>
    /\ DefaultTemplates
    /\ ParseIdle
    /\ LinksIdle
    /\ ProjectIdle

\* splice replacement_text into the document, or into the latest result
ApplySplice ==
    /\ Len(spliced) < MaxSplices
    /\ spliced' = Append(spliced,
            Splice(IF spliced = <<>> THEN document_text ELSE spliced[Len(spliced)],
                   start_marker, end_marker, replacement_text))
    /\ UNCHANGED <<unit_vars, config_vars, document_text, replacement_text, parse_vars,
                   links_vars, project_vars, run_vars>>

SpliceNext == ApplySplice

SpliceSpec == SpliceInit /\ [][SpliceNext]_vars

----------------------------------------------------------------------------
(* ParseSpec: parse_post_file applied to one file *)

ParseInit ==
    /\ UnitIdle
    /\ RunIdle
    /\ DefaultMarkers
    /\ DefaultTemplates
    /\ SpliceIdle
    /\ LinksIdle
    /\ ProjectIdle
    /\ post_file \in [folder : {"a"}, readable : BOOLEAN,
                      fm : FrontMatters({<<"x">>}, {"a-post"}, {1}, {"en"})]
    /\ parse_result = NotCalled

CallParsePostFile ==
    /\ parse_result = NotCalled
    /\ parse_result' = ParsePostFile(post_file)
    /\ UNCHANGED <<unit_vars, config_vars, splice_vars, post_file, links_vars, project_vars,
                   run_vars>>

ParseNext == CallParsePostFile

ParseSpec == ParseInit /\ [][ParseNext]_vars

----------------------------------------------------------------------------
(* LinksSpec: render_post_links applied to one list of posts *)

\* the posts a valid front matter can give
Posts == [title : Titles, slug : {"a-post"}, published_date : Dates, lang : Langs]

\* link templates: the title alone, the title behind a literal, and one
\* whose rendering raises
LinkTemplateBodies == {<<"{{title}}">>, <<"x", "{{title}}">>, <<"{{raise}}">>}

LinksInit ==
    /\ UnitIdle
    /\ RunIdle
    /\ DefaultMarkers
    /\ translations \in {Langs, {"en"}}
    /\ link_template \in [exists : BOOLEAN, body : LinkTemplateBodies]
    /\ SpliceIdle
    /\ ParseIdle
    /\ ProjectIdle
    /\ given_posts \in SeqsUpTo(Posts, MaxPosts)
    /\ links_result = NotCalled

CallRenderPostLinks ==
    /\ links_result = NotCalled
    /\ links_result' = RenderPostLinks(given_posts, link_template, translations)
    /\ UNCHANGED <<unit_vars, config_vars, splice_vars, parse_vars, given_posts, project_vars,
                   run_vars>>

LinksNext == CallRenderPostLinks

LinksSpec == LinksInit /\ [][LinksNext]_vars

----------------------------------------------------------------------------
(* IndexSpec: update_index run on a project directory whose index file    *)
(* holds both markers, as validate_environment requires                    *)

\* the files of a content tree: readable, with a front matter that is valid
\* or has a slug the schema rejects
TreeFiles ==
    {f \in [folder : {"a"}, readable : {TRUE},
            fm : FrontMatters(Titles, {"a-post"}, Dates, {"en"})] :
        /\ f.fm.st["title"] = "ok"
        /\ f.fm.st["slug"] \in {"ok", "invalid"}
        /\ f.fm.st["published_date"] = "ok"
        /\ f.fm.st["lang"] = "ok"}

\* content trees of at most MaxFiles files, in walk order
IndexTrees == SeqsUpTo(TreeFiles, MaxFiles)

IndexInit ==
    /\ UnitIdle
    /\ RunIdle
    /\ DefaultMarkers
    /\ DefaultTemplates
    /\ SpliceIdle
    /\ ParseIdle
    /\ LinksIdle
    /\ index_file \in SeqsUpTo(DocChar, MaxIndexLen)
    /\ Contains(index_file, start_marker)
    /\ Contains(index_file, end_marker)
    /\ content \in IndexTrees
    /\ today \in Dates
    /\ index_runs = <<>>

\* one run of update_index, the write included: the write succeeds, or
\* fails with the file untouched or truncated
RunUpdateIndex ==
    /\ Len(index_runs) < MaxRuns
    /\ LET run == UpdateIndex(index_file, content, start_marker, end_marker,
                              link_template, translations)
       IN  IF run.raised /= "none"
           THEN /\ index_runs' = Append(index_runs, run)
                /\ UNCHANGED index_file
           ELSE \/ /\ index_file' = run.formatted_html
                   /\ index_runs' = Append(index_runs, run)
                \/ /\ index_file' \in {index_file, <<>>}
                   /\ index_runs' = Append(index_runs,
                            [run EXCEPT !.raised = "FileCreationError"])
    /\ UNCHANGED <<unit_vars, config_vars, splice_vars, parse_vars, links_vars, content, today,
                   run_vars>>

IndexNext == RunUpdateIndex

IndexSpec == IndexInit /\ [][IndexNext]_vars

----------------------------------------------------------------------------
(* DirectIndexSpec: update_index called on an index file of any content,  *)
(* without the validation of the generate command before it                *)

DirectIndexInit ==
    /\ UnitIdle
    /\ RunIdle
    /\ DefaultMarkers
    /\ DefaultTemplates
    /\ SpliceIdle
    /\ ParseIdle
    /\ LinksIdle
    /\ index_file \in SeqsUpTo(DocChar, MaxIndexLen)
    /\ content \in IndexTrees
    /\ today = MaxDate
    /\ index_runs = <<>>

DirectIndexNext == RunUpdateIndex

DirectIndexSpec == DirectIndexInit /\ [][DirectIndexNext]_vars

----------------------------------------------------------------------------
(* DescriptionSpec: extract_description applied to one markdown body *)

\* markdown bodies of at most MaxBlocks blocks
MarkdownBodies == SeqsUpTo(Blocks, MaxBlocks)

DescriptionInit ==
    /\ DefaultMarkers
    /\ DefaultTemplates
    /\ SpliceIdle
    /\ ParseIdle
    /\ LinksIdle
    /\ ProjectIdle
    /\ RunIdle
    /\ AuxIdle
    /\ ImageIdle
    /\ InjectIdle
    /\ UrlIdle
    /\ markdown_content \in MarkdownBodies
    /\ max_length \in -1..MaxLength
    /\ description = NotCalled

CallExtractDescription ==
    /\ description = NotCalled
    /\ description' = [raised |-> "none",
                       text |-> ExtractDescription(markdown_content, max_length)]
    /\ UNCHANGED <<config_vars, splice_vars, parse_vars, links_vars, project_vars,
                   run_vars, aux_vars, markdown_content, max_length, image_vars, inject_vars,
                   url_vars>>

DescriptionNext == CallExtractDescription

DescriptionSpec == DescriptionInit /\ [][DescriptionNext]_vars

----------------------------------------------------------------------------
(* ImageSpec: the image resolved for one post *)

ImagePaths == {"cover.jpg", "hero.jpg"}

ImageInit ==
    /\ DefaultMarkers
    /\ DefaultTemplates
    /\ SpliceIdle
    /\ ParseIdle
    /\ LinksIdle
    /\ ProjectIdle
    /\ RunIdle
    /\ AuxIdle
    /\ DescriptionIdle
    /\ InjectIdle
    /\ UrlIdle
    /\ declared_image \in ImagePaths \cup {NoImage}
    /\ first_image \in ImagePaths \cup {NoImage}
    /\ disk \in SUBSET (ImagePaths \cup {LogoPath})
    /\ resolved_image = NotCalled

\* steps 3 to 5 of the loop body of _generate_impl, for the image
ResolveImage ==
    /\ resolved_image = NotCalled
    /\ resolved_image' = EnrichedPostImage(ImagePath(declared_image, first_image), disk)
    /\ UNCHANGED <<config_vars, splice_vars, parse_vars, links_vars, project_vars,
                   run_vars, aux_vars, description_vars, inject_vars, url_vars,
                   declared_image, first_image, disk>>

ImageNext == ResolveImage

ImageSpec == ImageInit /\ [][ImageNext]_vars

----------------------------------------------------------------------------
(* InjectSpec: inject_meta_tags_and_canonical applied to one document *)

\* children of head: a charset meta tag, another meta tag, a text node, or a
\* noscript element that holds one meta tag
HeadShapes ==
    {<<"meta charset">>, <<"meta">>, <<"text">>,
     <<"noscript", "meta charset">>, <<"noscript", "meta">>}

\* the child of head of shape sh at position k
HeadChild(sh, k) ==
    IF Len(sh) = 1 THEN Node(sh[1], "html", k, "", <<>>)
    ELSE Node(sh[1], "html", k, "", <<Node(sh[2], "html", k, "", <<>>)>>)

\* the heads of at most MaxHeadLen children
Heads ==
    {[k \in 1..Len(shapes) |-> HeadChild(shapes[k], k)] :
        shapes \in SeqsUpTo(HeadShapes, MaxHeadLen)}

\* parsed fragments of at most MaxFragmentLen nodes: tags, text and comments
Fragments ==
    {[k \in 1..Len(kinds) |-> Node(kinds[k], "meta_tags", k, "", <<>>)] :
        kinds \in SeqsUpTo({"tag", "text", "comment"}, MaxFragmentLen)}

InjectInit ==
    /\ DefaultMarkers
    /\ DefaultTemplates
    /\ SpliceIdle
    /\ ParseIdle
    /\ LinksIdle
    /\ ProjectIdle
    /\ RunIdle
    /\ AuxIdle
    /\ DescriptionIdle
    /\ ImageIdle
    /\ UrlIdle
    /\ template_html \in
            {[has_head |-> FALSE, head |-> <<>>]}
                \cup {[has_head |-> TRUE, head |-> h] : h \in Heads}
    /\ meta_tags \in Fragments
    /\ canonical_url \in {"https://example.com/posts/en/a-post"}
    /\ injected = NotCalled

CallInject ==
    /\ injected = NotCalled
    /\ injected' = Inject(template_html, meta_tags, canonical_url)
    /\ UNCHANGED <<config_vars, splice_vars, parse_vars, links_vars, project_vars,
                   run_vars, aux_vars, description_vars, image_vars, url_vars,
                   template_html, meta_tags, canonical_url>>

InjectNext == CallInject

InjectSpec == InjectInit /\ [][InjectNext]_vars

----------------------------------------------------------------------------
(* UrlSpec: get_full_url applied to one post *)

\* site URLs: the host alone, the host with a slash, and with a path
SiteUrls ==
    {<<Origin>>, <<Origin, "/">>, <<Origin, "/", "blog">>,
     <<Origin, "/", "blog", "/">>}

UrlPosts == [title : {<<"x">>}, slug : Slugs, published_date : Dates, lang : Langs]

UrlInit ==
    /\ DefaultMarkers
    /\ DefaultTemplates
    /\ SpliceIdle
    /\ ParseIdle
    /\ LinksIdle
    /\ ProjectIdle
    /\ RunIdle
    /\ AuxIdle
    /\ DescriptionIdle
    /\ ImageIdle
    /\ InjectIdle
    /\ site_url \in SiteUrls
    /\ output_folder \in {"posts", "out"}
    /\ url_post \in UrlPosts
    /\ full_url = NotCalled

CallGetFullUrl ==
    /\ full_url = NotCalled
    /\ full_url' = [raised |-> "none",
                    url |-> FullUrl(url_post, site_url, output_folder)]
    /\ UNCHANGED <<config_vars, splice_vars, parse_vars, links_vars, project_vars,
                   run_vars, aux_vars, description_vars, image_vars, inject_vars, site_url,
                   output_folder, url_post>>

UrlNext == CallGetFullUrl

UrlSpec == UrlInit /\ [][UrlNext]_vars

----------------------------------------------------------------------------
(* RenderSpec: render_template applied to one post and one template file *)

TemplateItems ==
    {VarItem(n) : n \in TemplateNames} \cup {TextItem(":"), RaiseItem}

\* the template file: absent, present with a syntax jinja2 rejects, or
\* present with a body of up to MaxTemplateLen items
PageTemplates ==
    {[state |-> "absent", body |-> <<>>], [state |-> "invalid", body |-> <<>>]}
    \cup [state : {"valid"}, body : SeqsUpTo(TemplateItems, MaxTemplateLen)]

EnrichedPosts ==
    [post : UrlPosts, content_html : {<<"<p>", "a", "</p>">>},
     image : ImagePaths \cup {LogoPath}]

RenderInit ==
    /\ DefaultMarkers
    /\ DefaultTemplates
    /\ SpliceIdle
    /\ ParseIdle
    /\ LinksIdle
    /\ ProjectIdle
    /\ RunIdle
    /\ DescriptionIdle
    /\ ImageIdle
    /\ InjectIdle
    /\ UrlIdle
    /\ SiteConfigIdle
    /\ SetupIdle
    /\ NewPostIdle
    /\ page_template \in PageTemplates
    /\ enriched_post \in EnrichedPosts
    /\ rendered = NotCalled

CallRenderTemplate ==
    /\ rendered = NotCalled
    /\ rendered' = RenderTemplate(page_template, enriched_post)
    /\ UNCHANGED <<config_vars, splice_vars, parse_vars, links_vars, project_vars,
                   run_vars, description_vars, image_vars, inject_vars, url_vars,
                   siteconfig_vars, setup_vars, newpost_vars, page_template,
                   enriched_post>>

RenderNext == CallRenderTemplate

RenderSpec == RenderInit /\ [][RenderNext]_vars

----------------------------------------------------------------------------
(* SiteConfigSpec: a SiteConfig constructed from one [site] table *)

ConfigLangs == {"en", "fr", "de"}

SiteConfigInit ==
    /\ DefaultMarkers
    /\ link_template = [exists |-> TRUE, body |-> <<"{{title}}">>]
    /\ translations \in SUBSET ConfigLangs
    /\ SpliceIdle
    /\ ParseIdle
    /\ LinksIdle
    /\ ProjectIdle
    /\ RunIdle
    /\ DescriptionIdle
    /\ ImageIdle
    /\ InjectIdle
    /\ UrlIdle
    /\ RenderIdle
    /\ SetupIdle
    /\ NewPostIdle
    /\ languages \in SeqsUpTo(ConfigLangs, MaxLanguages)
    /\ site_config = NotCalled

ConstructSiteConfig ==
    /\ site_config = NotCalled
    /\ site_config' = SiteConfigOf(languages, translations)
    /\ UNCHANGED <<config_vars, splice_vars, parse_vars, links_vars, project_vars,
                   run_vars, description_vars, image_vars, inject_vars, url_vars,
                   render_vars, setup_vars, newpost_vars, languages>>

SiteConfigNext == ConstructSiteConfig

SiteConfigSpec == SiteConfigInit /\ [][SiteConfigNext]_vars

----------------------------------------------------------------------------
(* SetupSpec: init and scaffold run in one directory, in any order *)

\* the directories a run can start from: a file below templates needs the
\* folder
SetupTrees ==
    {t \in [SetupPaths -> {Absent, Dir, File(DefaultConfig), File("existing config"),
                           File("my own page")}] :
        /\ t[ConfigFile] \in {Absent, File(DefaultConfig), File("existing config")}
        /\ \A k \in 1..Len(Folders) : t[Folders[k]] \in {Absent, Dir, File("my own page")}
        /\ \A k \in 1..Len(Copies) :
            /\ t[Copies[k].path] \in {Absent, File("my own page")}
            /\ (Copies[k].parent /= "" /\ t[Copies[k].parent] /= Dir)
                    => t[Copies[k].path] = Absent}

\* at most one path cannot be created
SetupEnvs ==
    [denied : {{}} \cup {{p} : p \in SetupPaths}, bundled : BOOLEAN]

SetupInit ==
    /\ DefaultMarkers
    /\ DefaultTemplates
    /\ SpliceIdle
    /\ ParseIdle
    /\ LinksIdle
    /\ ProjectIdle
    /\ RunIdle
    /\ DescriptionIdle
    /\ ImageIdle
    /\ InjectIdle
    /\ UrlIdle
    /\ RenderIdle
    /\ SiteConfigIdle
    /\ NewPostIdle
    /\ tree \in SetupTrees
    /\ setup_env \in SetupEnvs
    /\ setup_log = <<>>

\* one command, logged with the directory before and after it
Logged(cmd, run) ==
    [cmd |-> cmd, before |-> tree, after |-> run.tree, exit |-> run.exit,
     stdout |-> run.stdout, stderr |-> run.stderr]

RunInit ==
    /\ Len(setup_log) < MaxCommands
    /\ LET run == InitCommand(tree, setup_env)
       IN  /\ tree' = run.tree
           /\ setup_log' = Append(setup_log, Logged("init", run))
    /\ UNCHANGED <<config_vars, splice_vars, parse_vars, links_vars, project_vars,
                   run_vars, description_vars, image_vars, inject_vars, url_vars,
                   render_vars, siteconfig_vars, newpost_vars, setup_env>>

RunScaffold ==
    /\ Len(setup_log) < MaxCommands
    /\ LET run == ScaffoldCommand(tree, setup_env)
       IN  /\ tree' = run.tree
           /\ setup_log' = Append(setup_log, Logged("scaffold", run))
    /\ UNCHANGED <<config_vars, splice_vars, parse_vars, links_vars, project_vars,
                   run_vars, description_vars, image_vars, inject_vars, url_vars,
                   render_vars, siteconfig_vars, newpost_vars, setup_env>>

SetupNext == RunInit \/ RunScaffold

SetupSpec == SetupInit /\ [][SetupNext]_vars

----------------------------------------------------------------------------
(* NewPostSpec: the new_post command run for one title *)

GivenTitles == SeqsUpTo(TitleChar, MaxTitleLen)

NewPostEnvs ==
    [config : BOOLEAN, post_dir : BOOLEAN, writable : BOOLEAN,
     languages : {<<"en", "fr">>}]

NewPostInit ==
    /\ DefaultMarkers
    /\ DefaultTemplates
    /\ SpliceIdle
    /\ ParseIdle
    /\ LinksIdle
    /\ ProjectIdle
    /\ RunIdle
    /\ DescriptionIdle
    /\ ImageIdle
    /\ InjectIdle
    /\ UrlIdle
    /\ RenderIdle
    /\ SiteConfigIdle
    /\ SetupIdle
    /\ title \in GivenTitles
    /\ new_post_env \in NewPostEnvs
    /\ new_post = NotCalled

RunNewPost ==
    /\ new_post = NotCalled
    /\ new_post' = NewPostCommand(title, new_post_env)
    /\ UNCHANGED <<config_vars, splice_vars, parse_vars, links_vars, project_vars,
                   run_vars, description_vars, image_vars, inject_vars, url_vars,
                   render_vars, siteconfig_vars, setup_vars, title, new_post_env>>

NewPostNext == RunNewPost

NewPostSpec == NewPostInit /\ [][NewPostNext]_vars

----------------------------------------------------------------------------
(* Spec: one run of the generate command on a project directory *)

\* project directories: complete, or with one thing missing
Envs ==
    {CompleteEnv,
     [CompleteEnv EXCEPT !.logo = FALSE],
     [CompleteEnv EXCEPT !.template_folder = FALSE, !.post_template = FALSE],
     [CompleteEnv EXCEPT !.post_template = FALSE],
     [CompleteEnv EXCEPT !.index = FALSE],
     [CompleteEnv EXCEPT !.post_folder = "missing"],
     [CompleteEnv EXCEPT !.post_folder = "file"]}

\* index files: well formed, an end marker before the start marker, one
\* marker missing, empty
IndexFiles ==
    {<<"s", "x", "e">>, <<"e", "s", "e">>, <<"s">>, <<"e">>, <<>>}

\* language files of the posts a and b: valid, or with a slug the schema
\* rejects
LanguageFiles ==
    {f \in [folder : {"a", "b"}, readable : {TRUE},
            fm : FrontMatters({<<"x">>}, Slugs, {1}, Langs)] :
        /\ f.fm.st["title"] = "ok"
        /\ f.fm.st["slug"] \in {"ok", "invalid"}
        /\ f.fm.st["published_date"] = "ok"
        /\ f.fm.st["lang"] = "ok"
        /\ (f.fm.st["slug"] = "invalid" => f.fm.lang = "en")}

\* content trees of at most MaxFiles language files, in walk order
ContentTrees == SeqsUpTo(LanguageFiles, MaxFiles)

Init ==
    /\ UnitIdle
    /\ DefaultMarkers
    /\ translations = Langs
    /\ SpliceIdle
    /\ ParseIdle
    /\ LinksIdle
    /\ env \in Envs
    /\ link_template \in {[exists |-> e, body |-> <<"{{title}}">>] : e \in BOOLEAN}
    /\ (link_template.exists => env.template_folder)
    /\ index_file \in IndexFiles
    /\ (~env.index => index_file = <<>>)
    /\ post_name = "a"
    /\ content \in ContentTrees
    /\ (env.post_folder /= "dir" => FilesOf(content, post_name) = <<>>)
    /\ today = 1
    /\ index_runs = <<>>
    /\ pc = "start"
    /\ post_files = <<>>
    /\ cursor = 0
    /\ generated_count = 0
    /\ stdout = <<>>
    /\ stderr = <<>>
    /\ exit_code = NoExit
    /\ events = <<>>
    /\ partial = {}
    /\ failure = NoFailure

\* the run ends in generate's handlers, or in the sys.exit of the raiser
Abort(raised, printed) ==
    /\ pc' = "exited"
    /\ stderr' = stderr \o HandlerOutput(raised, printed)
    /\ exit_code' = ExitStatus

\* generate up to the loop: load the configuration, validate the
\* environment, find the language files of the post
StartRun ==
    /\ pc = "start"
    /\ LET errors == ValidateEnvironment(env, index_file, start_marker, end_marker,
                                         link_template)
           found == FindPostFiles(env, content, post_name)
       IN  IF ~ValidationPasses(errors)
           THEN /\ Abort("EnvironmentValidationError", <<>>)
                /\ UNCHANGED <<post_files, cursor>>
           ELSE IF found.raised /= "none"
           THEN /\ Abort(found.raised, found.stderr)
                /\ UNCHANGED <<post_files, cursor>>
           ELSE /\ pc' = "loop"
                /\ post_files' = found.md_files
                /\ cursor' = 1
                /\ UNCHANGED <<stderr, exit_code>>
    /\ UNCHANGED <<unit_vars, config_vars, splice_vars, parse_vars, links_vars, project_vars,
                   env, post_name, generated_count, stdout, events, partial, failure>>

\* one iteration of the loop: the pipeline of one language file, which
\* fails at its first failing step or writes the output file
ProcessFile ==
    /\ pc = "loop"
    /\ ~LoopFinished(cursor, Len(post_files))
    /\ LET parsed == ParsePostFile(post_files[cursor])
       IN  IF parsed.raised /= "none"
           THEN /\ Abort(parsed.raised, parsed.stderr)
                /\ failure' = [file |-> cursor, step |-> "parse"]
                /\ stdout' = Append(stdout, "Processing")
                /\ UNCHANGED <<cursor, generated_count, events, partial>>
           ELSE \/ \E step \in EnvSteps :
                    /\ Abort(StepFailure(step).raised, StepFailure(step).stderr)
                    /\ failure' = [file |-> cursor, step |-> step]
                    /\ stdout' = Append(stdout, "Processing")
                    /\ partial' \in IF step = "write"
                                    THEN {partial,
                                          partial \cup {OutputPath(parsed.post)}}
                                    ELSE {partial}
                    /\ UNCHANGED <<cursor, generated_count, events>>
                \/ /\ events' = Append(events,
                            [ev |-> "write", file |-> cursor,
                             path |-> OutputPath(parsed.post)])
                   /\ stdout' = stdout \o <<"Processing", "Generated">>
                   /\ generated_count' = generated_count + 1
                   /\ cursor' = NextCursor(cursor)
                   /\ UNCHANGED <<pc, stderr, exit_code, partial, failure>>
    /\ UNCHANGED <<unit_vars, config_vars, splice_vars, parse_vars, links_vars, project_vars,
                   env, post_name, post_files>>

\* after the loop: the success message, then update_index on the whole
\* content tree, its write included
FinishRun ==
    /\ pc = "loop"
    /\ LoopFinished(cursor, Len(post_files))
    /\ events' = Append(events, [ev |-> "update_index", file |-> 0, path |-> <<>>])
    /\ LET run == UpdateIndex(index_file, content, start_marker, end_marker,
                              link_template, translations)
           success == <<"Successfully generated", "Updating index">>
       IN  /\ index_runs' = Append(index_runs, run)
           /\ IF run.raised /= "none"
              THEN /\ Abort(run.raised, run.stderr)
                   /\ stdout' = stdout \o success
                   /\ UNCHANGED index_file
              ELSE \/ /\ index_file' = run.formatted_html
                      /\ stdout' = stdout \o success \o <<"Updated index">>
                      /\ pc' = "done"
                      /\ exit_code' = 0
                      /\ UNCHANGED stderr
                   \/ /\ index_file' \in {index_file, <<>>}
                      /\ Abort("FileCreationError", <<>>)
                      /\ stdout' = stdout \o success
    /\ UNCHANGED <<unit_vars, config_vars, splice_vars, parse_vars, links_vars, content, today,
                   env, post_name, post_files, cursor, generated_count, partial,
                   failure>>

Next == StartRun \/ ProcessFile \/ FinishRun

Spec == Init /\ [][Next]_vars

----------------------------------------------------------------------------
(* Claims about the marker splice (SpliceSpec) *)

\* str.find(sub, start): lowest position >= from of sub in s, -1 when absent
FindFrom(s, sub, from) ==
    IF \E p \in from..Len(s) : OccursAt(s, sub, p)
    THEN CHOOSE p \in from..Len(s) :
            /\ OccursAt(s, sub, p)
            /\ \A q \in from..(p - 1) : ~OccursAt(s, sub, q)
    ELSE -1

\* the document holds the start marker and, somewhere after it, the end marker
StartThenEnd(doc, sm, em) ==
    /\ Contains(doc, sm)
    /\ FindFrom(doc, em, Find(doc, sm) + Len(sm)) >= 0

\* the splice the specification describes: cut after the first start marker
\* and at the first end marker that follows it
SpecifiedSplice(doc, sm, em, repl) ==
    SliceTo(doc, Find(doc, sm) + Len(sm))
        \o <<NL>> \o repl \o <<NL>>
        \o SliceFrom(doc, FindFrom(doc, em, Find(doc, sm) + Len(sm)))

\* C1: spliced into a document that holds the start marker followed later by
\* the end marker, the result keeps the text up to and including the start
\* marker and the text from that end marker onward, and holds exactly
\* newline + replacement + newline between them.
C1_SpliceKeepsOutside ==
    (Len(spliced) >= 1 /\ StartThenEnd(document_text, start_marker, end_marker))
        => spliced[1] = SpecifiedSplice(document_text, start_marker, end_marker,
                                        replacement_text)

CutsInOrder ==
    /\ Contains(document_text, start_marker)
    /\ Find(document_text, end_marker) >= HeadCut(document_text, start_marker)
    /\ ~Contains(replacement_text, end_marker)

----------------------------------------------------------------------------
(* Claims about parse_post_file (ParseSpec) *)

\* the number of fields of the front matter that violate the schema
Violations(fm) == Cardinality({f \in FieldSet : fm.st[f] /= "ok"})

\* C8: a readable file whose front matter violates the schema in k >= 1 fields
\* makes parse_post_file fail with a PostValidationError carrying one message
\* per violated field, missing told from invalid, and return no Post.
C8_RaisesPostValidationError ==
    (/\ parse_result /= NotCalled
     /\ post_file.readable
     /\ Violations(post_file.fm) >= 1)
        => /\ parse_result.raised = "PostValidationError"
           /\ ~parse_result.returned
           /\ \A f \in FieldSet : post_file.fm.st[f] /= "ok" =>
                \E k \in 1..Len(parse_result.stderr) :
                    /\ parse_result.stderr[k].field = f
                    /\ (parse_result.stderr[k].text = "Missing required field")
                         <=> (post_file.fm.st[f] = "missing")

----------------------------------------------------------------------------
(* Claims about render_post_links (LinksSpec) *)

\* the orders in which n posts can appear
Orders(n) == {f \in [1..n -> 1..n] : \A i, j \in 1..n : i /= j => f[i] /= f[j]}

----------------------------------------------------------------------------
(* Claims about update_index (IndexSpec) *)

\* the run ended without an exception
Succeeded(run) == run.raised = "none"

\* the posts of the files whose front matter is valid, in walk order
ValidPosts(files) ==
    LET F[k \in 0..Len(files)] ==
            IF k = 0 THEN <<>>
            ELSE IF Violations(files[k].fm) = 0
                 THEN Append(F[k - 1], PostOf(files[k].fm))
                 ELSE F[k - 1]
    IN  F[Len(files)]

\* C3: two runs of update_index in succession on unchanged inputs leave the
\* index file after the second run identical to the file after the first.
C3_UpdateIndexIdempotent ==
    (/\ Len(index_runs) >= 2
     /\ Succeeded(index_runs[1])
     /\ Succeeded(index_runs[2]))
        => index_runs[2].formatted_html = index_runs[1].formatted_html

\* C5: a file of the content tree that fails front-matter validation is
\* skipped: the run is not aborted by it, and every valid post is collected.
C5_InvalidFileSkipped ==
    \A r \in 1..Len(index_runs) :
        (\E k \in 1..Len(content) : Violations(content[k].fm) >= 1)
            => /\ index_runs[r].raised /= "SystemExit"
               /\ index_runs[r].posts = ValidPosts(content)

\* C6: no post dated after today is collected, and every valid post dated
\* today or earlier is.
C6_NoFuturePostCollected ==
    \A r \in 1..Len(index_runs) :
        Succeeded(index_runs[r]) =>
            LET collected == index_runs[r].posts
            IN  /\ \A k \in 1..Len(collected) : collected[k].published_date <= today
                /\ \A k \in 1..Len(content) :
                    content[k].fm.published_date <= today =>
                        \E j \in 1..Len(collected) : collected[j] = PostOf(content[k].fm)

----------------------------------------------------------------------------
(* Claims about the generate command (Spec) *)

\* the positions of the log at which update_index was invoked
IndexCalls == {k \in 1..Len(events) : events[k].ev = "update_index"}

\* the language files, by position in post_files, whose output file the run
\* has written
Written == {events[k].file : k \in {j \in 1..Len(events) : events[j].ev = "write"}}

\* the run has ended
Terminated == pc \in {"done", "exited"}

\* C4: update_index is invoked at most once in a run, only after the output
\* file of every language file of the post has been written, and no output
\* file is written after it.
C4_IndexOnceAfterAllWrites ==
    /\ Cardinality(IndexCalls) <= 1
    /\ \A k \in IndexCalls :
        /\ \A f \in 1..Len(post_files) :
            \E j \in 1..(k - 1) : events[j].ev = "write" /\ events[j].file = f
        /\ \A j \in (k + 1)..Len(events) : events[j].ev /= "write"

\* C4 witness: a run over two language files has written both outputs and
\* then updated the index.
C4_Witness ==
    /\ pc = "done"
    /\ Len(post_files) = 2
    /\ Len(events) = 3
    /\ events[3].ev = "update_index"
    /\ index_file /= <<"s", "x", "e">>

\* C9: once a step of the pipeline of a language file has failed, the run
\* has ended with a non-zero exit status and a report on the error stream,
\* has processed no later language file, has not invoked update_index and
\* has not printed the success message.
C9_FailureAbortsRun ==
    failure /= NoFailure =>
        /\ pc = "exited"
        /\ exit_code /= NoExit
        /\ exit_code /= 0
        /\ stderr /= <<>>
        /\ IndexCalls = {}
        /\ \A k \in 1..Len(stdout) : stdout[k] /= "Successfully generated"
        /\ Cardinality({k \in 1..Len(stdout) : stdout[k] = "Processing"})
                = failure.file
        /\ \A f \in Written : f < failure.file

\* C9 witness: the injection failed for the second language file of a post,
\* after the first one had been generated.
C9_Witness ==
    /\ failure = [file |-> 2, step |-> "inject"]
    /\ Len(post_files) = 2
    /\ pc = "exited"
    /\ generated_count = 1

\* C10: when the run has ended, the output files it has written cover every
\* language file of the post or none of them.
C10_AllOrNone ==
    Terminated => (Written = 1..Len(post_files) \/ Written = {})

\* C10 (amended): when the run has ended, the output files it has written
\* are those of the language files before the first failing one, all of them
\* when no pipeline failed; only the file whose write failed can be left
\* incomplete.
C10_WrittenUpToFailure ==
    Terminated =>
        /\ (failure = NoFailure /\ post_files /= <<>>)
                => Written = 1..Len(post_files)
        /\ failure /= NoFailure => Written = 1..(failure.file - 1)
        /\ exit_code = 0 => failure = NoFailure
        /\ \A path \in partial :
            /\ failure.step = "write"
            /\ path = OutputPath(PostOf(post_files[failure.file].fm))

\* C10 witness: the run ended on a failure in the second of two language
\* files, with the output of the first one written.
C10_Witness ==
    /\ pc = "exited"
    /\ Len(post_files) = 2
    /\ failure.file = 2
    /\ Written = {1}

----------------------------------------------------------------------------
(* Claims about update_index on an unvalidated index file (DirectIndexSpec) *)

\* the start marker or the end marker does not occur in the text
MarkerAbsent(text) ==
    ~Contains(text, start_marker) \/ ~Contains(text, end_marker)

\* C11: a run of update_index on an index file that lacks the start marker
\* or the end marker ends with an error, and leaves the index file as it was.
C11_MissingMarkerFails ==
    [][MarkerAbsent(index_file) =>
            /\ ~Succeeded(index_runs'[Len(index_runs')])
            /\ index_file' = index_file]_vars

----------------------------------------------------------------------------
(* Further claims about the marker splice (SpliceSpec) *)

\* C12: in a document that holds both markers the splice cuts after the
\* first start marker and at the first end marker that lies after it; an end
\* marker in front of the start marker is never the cut position.
C12_CutsAtEndAfterStart ==
    (/\ Len(spliced) >= 1
     /\ Contains(document_text, start_marker)
     /\ Contains(document_text, end_marker))
        => /\ HeadCut(document_text, start_marker)
                = Find(document_text, start_marker) + Len(start_marker)
           /\ TailCut(document_text, start_marker, end_marker)
                >= HeadCut(document_text, start_marker)
           /\ StartThenEnd(document_text, start_marker, end_marker)
                => TailCut(document_text, start_marker, end_marker)
                    = FindFrom(document_text, end_marker,
                               HeadCut(document_text, start_marker))

----------------------------------------------------------------------------
(* Claims about extract_description (DescriptionSpec) *)

\* extract_description was called with a text longer than max_length
Truncated ==
    /\ description /= NotCalled
    /\ Len(VisibleText(markdown_content)) > max_length

\* the returned description without its last three characters
Kept == SubSeq(description.text, 1, Len(description.text) - 3)

\* the 0-based positions from 1 on at which the first max_length characters
\* of the visible text hold a space
InnerSpaces ==
    {p \in 1..(max_length - 1) : VisibleText(markdown_content)[p + 1] = " "}

OnlyHeadings(blocks) ==
    /\ blocks /= <<>>
    /\ \A k \in 1..Len(blocks) : blocks[k].kind = "heading"

\* what C14 says of one call of extract_description
WithinLength ==
    LET text == VisibleText(markdown_content)
    IN  /\ Len(description.text) <= max_length + 3
        /\ Len(text) <= max_length => description.text = text
        /\ OnlyHeadings(markdown_content) => description.text = <<>>

\* C14: for every input and every max_length the result is at most
\* max_length + 3 long, a visible text of length <= max_length is returned
\* unchanged, and content made of headings only gives the empty string.
C14_LengthBound == description /= NotCalled => WithinLength

\* C14 (amended): the same for every input and every max_length >= 0.
C14_LengthBoundNonNegative ==
    (description /= NotCalled /\ max_length >= 0) => WithinLength

\* C14 witness: a truncated description of exactly max_length + 3 characters
\* was returned for a body that starts with a heading.
C14_Witness ==
    /\ description /= NotCalled
    /\ max_length >= 1
    /\ Len(markdown_content) = 2
    /\ markdown_content[1].kind = "heading"
    /\ Len(description.text) = max_length + 3

----------------------------------------------------------------------------
(* Claims about the image of a post (ImageSpec) *)

\* C15: with the logo in place, the image of a post is the declared image
\* if one is declared and its file exists, otherwise the src of the first
\* image of the content whether or not that file exists, otherwise the logo.
C15_ImageResolutionOrder ==
    (resolved_image /= NotCalled /\ LogoPath \in disk) =>
        /\ resolved_image.raised = "none"
        /\ resolved_image.image =
            IF declared_image /= NoImage /\ declared_image \in disk
            THEN declared_image
            ELSE IF first_image /= NoImage THEN first_image ELSE LogoPath

----------------------------------------------------------------------------
(* Claims about inject_meta_tags_and_canonical (InjectSpec) *)

\* the call returned a document
Injected == injected /= NotCalled /\ injected.raised = "none"

\* the lists of siblings of a head: its children, and the children of each
SiblingLists(children) ==
    {children} \cup {children[k].inner : k \in 1..Len(children)}

\* how many nodes of a list of siblings are canonical links with this url
CanonicalsIn(siblings, url) ==
    Cardinality({k \in 1..Len(siblings) : siblings[k] = CanonicalTag(url)})

\* the children of a head without the tags that did not come with the html
WithoutInserted(children) ==
    LET old(n) == n.from = "html"
    IN  [k \in 1..Len(SelectSeq(children, old)) |->
            [SelectSeq(children, old)[k] EXCEPT
                !.inner = SelectSeq(SelectSeq(children, old)[k].inner, old)]]

\* the head holds a charset meta tag, as a child or below one
HasCharsetMeta(children) ==
    \E siblings \in SiblingLists(children) :
        \E k \in 1..Len(siblings) : IsCharsetMeta(siblings[k])

\* C16: the head of the returned document holds exactly one canonical link
\* with the given url: right behind a charset meta tag when the head has
\* one, as the first child of head otherwise; the children the head had
\* keep their order.
C16_CanonicalPlaced ==
    Injected =>
        LET out == injected.head
            c == CanonicalTag(canonical_url)
        IN  /\ WithoutInserted(out) = template_html.head
            /\ \E siblings \in SiblingLists(out) :
                /\ CanonicalsIn(siblings, canonical_url) = 1
                /\ \A others \in SiblingLists(out) \ {siblings} :
                        CanonicalsIn(others, canonical_url) = 0
            /\ IF HasCharsetMeta(template_html.head)
               THEN \E siblings \in SiblingLists(out) :
                        \E k \in 1..(Len(siblings) - 1) :
                            /\ IsCharsetMeta(siblings[k])
                            /\ siblings[k + 1] = c
               ELSE out[1] = c

\* C16 witness: the canonical link was put behind a charset meta tag that is
\* not the first child of head, in front of another child.
C16_Witness ==
    /\ Injected
    /\ Len(template_html.head) = 3
    /\ IsCharsetMeta(template_html.head[2])
    /\ ~HasCharsetMeta(<<template_html.head[1]>>)
    /\ injected.head[3] = CanonicalTag(canonical_url)

\* the tags of a list of nodes that came with the meta_tags fragment
FragmentTags(nodes) ==
    SelectSeq(nodes, LAMBDA n : n.from = "meta_tags" /\ n.kind = "tag")

\* C17: every tag of the fragment is appended to the end of head, once and
\* in the order of the fragment, whatever lies between the tags.
C17_EveryTagAppended ==
    Injected =>
        LET out == injected.head
            tags == FragmentTags(meta_tags)
        IN  /\ Len(out) >= Len(tags)
            /\ SubSeq(out, Len(out) - Len(tags) + 1, Len(out)) = tags
            /\ FragmentTags(out) = tags

\* C18: for html without a head element the call fails with a TemplateError
\* that says no head tag was found, and returns no document.
C18_NoHeadTemplateError ==
    (injected /= NotCalled /\ ~template_html.has_head) =>
        /\ injected.raised = "TemplateError"
        /\ injected.message = "No <head> tag found in template"
        /\ ~injected.returned

----------------------------------------------------------------------------
(* Claims about the URLs of a post (UrlSpec) *)

\* a URL without the slash it may end with
WithoutTrailingSlash(url) ==
    IF url /= <<>> /\ url[Len(url)] = "/" THEN SubSeq(url, 1, Len(url) - 1) ELSE url

\* C19: the full URL of a post is the site URL without trailing slash
\* followed by /{output_folder}/{lang}/{slug}, with one slash between the
\* host and the output folder.
C19_FullUrlSingleSlash ==
    full_url /= NotCalled =>
        full_url.url = WithoutTrailingSlash(site_url)
                        \o <<"/", output_folder, "/", url_post.lang, "/", url_post.slug>>

----------------------------------------------------------------------------
(* Further claims about the generate command (Spec) *)

\* the checks of the environment that fail in the current state
FailedChecks ==
    ValidateEnvironment(env, index_file, start_marker, end_marker, link_template)

\* C20: a run that starts in an environment with at least one failed check
\* ends at once with a non-zero exit status and a report on the error
\* stream: no post file is looked for or parsed, no output file is written
\* and the index file is left as it was; a run that has ended does nothing
\* more.
C20_ValidationFirst ==
    [][/\ pc /= "exited"
       /\ (pc = "start" /\ FailedChecks /= <<>>) =>
            /\ pc' = "exited"
            /\ exit_code' /= 0
            /\ stderr' /= <<>>
            /\ UNCHANGED <<index_file, index_runs, events, partial, stdout,
                           post_files, generated_count, failure>>]_vars

\* C20 witness: a run for a post that has language files has ended on an
\* index file without end marker, with nothing printed on the output stream.
C20_Witness ==
    /\ pc = "exited"
    /\ env.index
    /\ ~Contains(index_file, end_marker)
    /\ FilesOf(content, post_name) /= <<>>
    /\ stdout = <<>>
    /\ events = <<>>

----------------------------------------------------------------------------
(* render_template *)

\* the template file is absent
TemplateAbsent == page_template.state = "absent"

\* the template has a syntax jinja2 rejects, or rendering it raises
TemplateBroken ==
    \/ page_template.state = "invalid"
    \/ /\ page_template.state = "valid"
       /\ \E k \in 1..Len(page_template.body) : page_template.body[k] = RaiseItem

\* C21: render_template raises TemplateNotFoundError when the template file
\* is absent and TemplateRenderError when its syntax is invalid or rendering
\* throws: a domain error reaches the caller, the process is not ended
\* inside render_template.
C21_RaisesTemplateErrors ==
    rendered /= NotCalled =>
        /\ TemplateAbsent => rendered.raised = "TemplateNotFoundError"
        /\ TemplateBroken => rendered.raised = "TemplateRenderError"
        /\ rendered.raised /= "SystemExit"

\* the text each documented name stands for, from the EnrichedPost
PostValue(ep, name) ==
    CASE name = "lang" -> <<ep.post.lang>>
      [] name = "title" -> ep.post.title
      [] name = "published_date" -> IsoDate(ep.post.published_date)
      [] name = "published_datetime_iso" -> PublishedDatetimeIso(ep.post)
      [] name = "published_on_date" -> GetPublishedOnDate(ep.post)
      [] name = "content" -> ep.content_html
      [] name = "image_path" -> <<ep.image>>

\* the page a template renders to when every documented name is bound
PageWithAllNames(body, ep) ==
    LET F[k \in 0..Len(body)] ==
            IF k = 0 THEN <<>>
            ELSE IF body[k].kind = "text" THEN Append(F[k - 1], body[k].name)
            ELSE F[k - 1] \o PostValue(ep, body[k].name)
    IN  F[Len(body)]

\* C22: the variable map given to the template engine defines lang, title,
\* published_date, published_datetime_iso, published_on_date, content and
\* image_path, each bound to the value of the EnrichedPost: a template that
\* refers to any of them renders the post's value, not an empty string.
C22_EveryNameBound ==
    (rendered /= NotCalled /\ rendered.raised = "none") =>
        rendered.html = PageWithAllNames(page_template.body, enriched_post)

----------------------------------------------------------------------------
(* The placeholder of update_index *)

\* the number of positions at which sub occurs in text
Occurrences(text, sub) ==
    Cardinality({p \in 0..Len(text) : OccursAt(text, sub, p)})

\* the links of the posts, newest first, one per line
LinksOf(posts) ==
    JoinLines([k \in 1..Len(posts) |->
                RenderLink(link_template.body, SortedPosts(posts)[k])])

----------------------------------------------------------------------------
(* SiteConfig *)

\* the configured languages that have no translation entry
Untranslated == {languages[k] : k \in 1..Len(languages)} \ translations

\* C24: every site configuration that is constructed has a translation entry
\* for each of its languages; when one or more languages lack a translation
\* the construction fails with an error that names every missing language.
C24_EveryLanguageTranslated ==
    site_config /= NotCalled =>
        /\ site_config.raised = "none" =>
            \A k \in 1..Len(site_config.languages) :
                site_config.languages[k] \in site_config.translations
        /\ Untranslated /= {} =>
            /\ site_config.raised = "ValidationError"
            /\ \A l \in Untranslated : Contains(site_config.message, <<l>>)
        /\ Untranslated = {} =>
            /\ site_config.raised = "none"
            /\ site_config.languages = languages
            /\ site_config.translations = translations

\* a construction that failed with two languages lacking a translation
C24_Witness ==
    /\ site_config /= NotCalled
    /\ site_config.raised = "ValidationError"
    /\ Cardinality(Untranslated) >= 2

----------------------------------------------------------------------------
(* The init and scaffold commands *)

\* the runs of a command in the log
RunsOf(cmd) == {k \in 1..Len(setup_log) : setup_log[k].cmd = cmd}

\* C25: init creates boumwave.toml only when it is absent; when the file
\* exists, init exits with a non-zero status, reports that the file already
\* exists and leaves its content unchanged.
C25_InitKeepsExistingConfig ==
    \A k \in RunsOf("init") :
        LET run == setup_log[k]
        IN  /\ run.before[ConfigFile] /= Absent =>
                /\ run.exit /= 0
                /\ run.stderr /= <<>>
                /\ run.stderr[1] = "Error: boumwave.toml already exists in this directory."
                /\ run.after = run.before
            /\ run.after[ConfigFile] /= run.before[ConfigFile] =>
                /\ run.before[ConfigFile] = Absent
                /\ run.after[ConfigFile] = File(DefaultConfig)
            /\ \A p \in SetupPaths \ {ConfigFile} : run.after[p] = run.before[p]

\* init was run in a directory that holds a configuration of the user
C25_Witness ==
    \E k \in RunsOf("init") :
        /\ setup_log[k].before[ConfigFile] = File("existing config")
        /\ setup_log[k].exit = 1
        /\ tree[ConfigFile] = File("existing config")

\* C30: scaffold never overwrites or modifies a folder or file that exists;
\* each folder and each template or index file is created only if absent,
\* so a second run with the same configuration leaves the directory as the
\* first run left it.
C30_ScaffoldKeepsExisting ==
    \A k \in RunsOf("scaffold") :
        LET run == setup_log[k]
        IN  /\ \A p \in SetupPaths :
                run.before[p] /= Absent => run.after[p] = run.before[p]
            /\ (k > 1 /\ setup_log[k - 1].cmd = "scaffold") =>
                run.after = setup_log[k - 1].after

\* scaffold ran twice: the first run kept a page of the user and created
\* the rest, the second run found everything in place
C30_Witness ==
    /\ Len(setup_log) = 2
    /\ setup_log[1].cmd = "scaffold"
    /\ setup_log[2].cmd = "scaffold"
    /\ setup_log[1].exit = 0
    /\ setup_log[1].before["index.html"] = File("my own page")
    /\ setup_log[1].before["templates"] = Absent
    /\ setup_log[1].after["templates/post.html"] = File("example_post.html")
    /\ tree = setup_log[1].after

----------------------------------------------------------------------------
(* The splice precondition in the generate command *)

\* start_pos and end_pos as update_index computes them on the file it reads
StartPos == Find(index_file, start_marker)

EndPos == Find(index_file, end_marker)

\* C26: when validate_environment has succeeded and the index file was not
\* changed since, the positions update_index computes satisfy
\* start_pos >= 0 and end_pos >= start_pos + len(start_marker): both
\* markers are found and the end marker used lies wholly after the start
\* marker.
C26_ValidationEstablishesSplice ==
    [][Len(index_runs') > Len(index_runs) =>
            /\ StartPos >= 0
            /\ EndPos >= StartPos + Len(start_marker)]_vars

----------------------------------------------------------------------------
(* The translation lookup of render_post_links *)

\* C27: every post that passed front-matter validation can be rendered into
\* the index: render_post_links renders its link or fails with
\* TemplateNotFoundError or TemplateRenderError; the translation lookup for
\* the post's lang is defined also when the lang is a valid two-letter code
\* that is not among the configured languages.
C27_LinksRenderOrTemplateError ==
    links_result /= NotCalled =>
        /\ links_result.raised \in
                {"none", "TemplateNotFoundError", "TemplateRenderError"}
        /\ (link_template.exists /\ ~TemplateRaises(link_template.body))
                => /\ links_result.raised = "none"
                   /\ Len(links_result.rendered_links) = Len(given_posts)

----------------------------------------------------------------------------
(* The output files of one run *)

\* the output paths the run has written
WrittenPaths ==
    {events[k].path : k \in {j \in 1..Len(events) : events[j].ev = "write"}}

\* C28: in a successful run the number of posts reported as generated
\* equals the number of distinct output files written: no two language
\* files of the post are written to the same lang/slug/index.html path, so
\* no output of the run is overwritten by a later language file.
C28_OneOutputPerLanguageFile ==
    (pc = "done" /\ exit_code = 0) =>
        /\ generated_count = Cardinality(WrittenPaths)
        /\ \A j, k \in 1..Len(events) :
            (/\ events[j].ev = "write"
             /\ events[k].ev = "write"
             /\ events[j].path = events[k].path) => j = k

----------------------------------------------------------------------------
(* The slug of a new post *)

\* C29: for every title, slugify(title) is the empty string or matches the
\* slug pattern of Post (lower-case letters and digits, single hyphens,
\* none at either end); new_post rejects a title whose slug is empty, so
\* every post file it creates carries a slug that passes Post validation.
C29_SlugValidOrRejected ==
    (new_post /= NotCalled /\ new_post_env.config) =>
        /\ new_post.slug = <<>> \/ MatchesSlugPattern(new_post.slug)
        /\ new_post.slug = <<>> =>
            /\ new_post.exit = 1
            /\ new_post.files = <<>>
        /\ \A k \in 1..Len(new_post.files) :
            MatchesSlugPattern(new_post.files[k].slug)

\* a post was created for a title whose slug differs from the title in
\* its ends and in a character that is dropped
C29_Witness ==
    /\ new_post /= NotCalled
    /\ new_post.files /= <<>>
    /\ title[1] \in {" ", "_", "-"}
    /\ \E k \in 1..Len(title) : title[k] = "E'"
    /\ MatchesSlugPattern(new_post.files[1].slug)

====
